---- MODULE Spec2Model ----
(***************************************************************************)
(* A model of the davies-chess search core: the transposition table        *)
(* (src/src/search/tt.rs), the negamax / quiescence search and the         *)
(* iterative-deepening driver (src/src/search.rs), the deadline           *)
(* predicates (src/src/time.rs), the lazy selection sort                   *)
(* (src/src/util/sort.rs) and the piece values (src/src/eval.rs).          *)
(*                                                                         *)
(* A 64-bit table word is kept as its bit fields, because TLC's integers   *)
(* are 32 bits wide:                                                       *)
(*   tag   = bits 63..40  (24 bits)                                        *)
(*   depth = bits 39..32  ( 8 bits)                                        *)
(*   val   = bits 31..16  (16 bits, the score as an unsigned number)       *)
(*   low   = bits 15..0   (from << 10 | to << 4 | score_type << 2)         *)
(* A 64-bit key is kept as hi (bits 63..40) and lo (bits 39..0).           *)
(***************************************************************************)
EXTENDS Integers, Sequences, FiniteSets, TLC

VARIABLES
    tt,         \* the table cells, 0..TTSize-1 -> word
    full,       \* TT.full, the occupied counter
    lastOp,     \* the table operation made by the last step, with its result
    hold,       \* the last write whose later same-key writes were all shallower
    root,       \* search(): the position searched
    rhist,      \* search(): the history supplied by the caller
    dl,         \* SearchState.deadline
    clock,      \* what Instant::now() has passed: "early", "soft" or "hard"
    counts,     \* SearchState.nodes: nodes, leaves, qnodes
    stack,      \* the call stack of alphabeta / qsearch frames
    ret,        \* the value the last finished call returned
    drv,        \* the locals of search(): pc, d, score, pv, asp_alpha, asp_beta
    cb,         \* the arguments of the last callback invocation, and how many were made
    accepted,   \* the score and PV adopted by the last completed iteration
    result,     \* what search() returned
    nsearch,    \* how many searches have used this table
    ls,         \* a LazySort on its own: data, keys, seen, and what next() yielded
    thr         \* the threads inside TT::write: where each is, and its locals

ttVars == <<tt, full, lastOp, hold>>

searchVars == <<root, rhist, dl, clock, counts, stack, ret, drv, cb, accepted, result, nsearch>>

vars == <<tt, full, lastOp, hold, root, rhist, dl, clock, counts, stack, ret, drv, cb,
          accepted, result, nsearch, ls, thr>>

(***************************************************************************)
(* Bounds of the model.                                                    *)
(***************************************************************************)
TTSize == 2
MaxTTDepth == 1
MaxFull == 3
MaxDepth == 4
MaxSearches == 2
MaxLen == 3

(***************************************************************************)
(* 16-bit arithmetic.                                                      *)
(***************************************************************************)
ToU16(v) == v % 65536

ToI16(u) == IF u % 65536 >= 32768 THEN (u % 65536) - 65536 ELSE u % 65536

RECURSIVE PowMod(_, _, _)
PowMod(b, e, m) == IF e = 0 THEN 1 % m ELSE (b * PowMod(b, e - 1, m)) % m

(***************************************************************************)
(* Keys, entries and words.                                                *)
(***************************************************************************)
Exact == 0
LowerBound == 1
UpperBound == 2

NoEntry == [none |-> TRUE]

ZeroWord == [tag |-> 0, depth |-> 0, val |-> 0, low |-> 0]

\* 2^40 modulo the table size
Pow40 == PowMod(2, 40, TTSize)

\* key % self.tt.len(), for key = hi * 2^40 + lo
Index(key) == ((key.hi % TTSize) * Pow40 + key.lo) % TTSize

\* a packing with the score type shifted by one bit instead of two
EncodeNarrow(key, data) ==
    [tag   |-> key.hi,
     depth |-> data.depth % 256,
     val   |-> ToU16(data.value),
     low   |-> (data.from * 1024 + data.to * 16 + data.score_type * 2) % 65536]

\* the packed word of TT::write; from and to are squares (0..63), so the
\* shifted fields do not overlap and | is +
Encode(key, data) ==
    [tag   |-> key.hi,
     depth |-> data.depth % 256,
     val   |-> ToU16(data.value),
     low   |-> (data.from * 1024 + data.to * 16 + data.score_type * 4) % 65536]

\* the fields TT::get reads back from a word
Decode(w) ==
    [from       |-> (w.low \div 1024) % 64,
     to         |-> (w.low \div 16) % 64,
     value      |-> ToI16(w.val),
     depth      |-> w.depth % 256,
     score_type |-> (w.low \div 4) % 4]

move_match_tt(m, tte) == m.from = tte.from /\ m.to = tte.to

\* TT::get: None on a tag mismatch or when no given move has the entry's
\* squares; score type 3 is the unreachable!() arm
Get(t, moves, key) ==
    LET entry == t[Index(key)]
        e     == Decode(entry)
    IN  IF entry.tag = key.hi
        THEN IF e.score_type = 3
             THEN [panic |-> TRUE]
             ELSE IF \E m \in moves : move_match_tt(m, e) THEN e ELSE NoEntry
        ELSE NoEntry

\* the replacement test of TT::write (tt.rs:82): the depth compared with
\* data.depth is read back from entry, the NEW word, not from oldentry
KeepsOld(oldentry, entry, key, data) ==
    oldentry.tag = key.hi /\ data.depth < entry.depth % 256

hashfull == (full * 1000) \div TTSize

(***************************************************************************)
(* The table on its own: any keys, any entries, one writer.                *)
(***************************************************************************)
TTKeys == {[hi |-> 0, lo |-> 0], [hi |-> 1, lo |-> 0], [hi |-> 1, lo |-> 1]}

\* (from, to, value, score_type) of the entries written: the all-zero entry,
\* a negative score with the largest square, a mate score
TTShapes == {<<0, 0, 0, Exact>>, <<63, 1, -1, UpperBound>>, <<12, 28, 32700, LowerBound>>}

TTEntries ==
    {[from |-> sh[1], to |-> sh[2], value |-> sh[3], depth |-> dp, score_type |-> sh[4]] :
        sh \in TTShapes, dp \in 0..MaxTTDepth}

LegalSets == {{[from |-> 63, to |-> 1]}, {[from |-> 0, to |-> 0], [from |-> 12, to |-> 28]}}

NoOp == [op |-> "none"]

Threads == {1, 2}

\* no thread is inside TT::write
ThreadsIdle == [t \in Threads |-> [pc |-> "idle"]]

\* no LazySort is exercised on its own
SortIdle == [data |-> <<>>, keys |-> <<>>, seen |-> {}, out |-> <<>>, none |-> FALSE]

\* the search is idle while the table is exercised on its own
SearchIdle ==
    /\ root = "N"
    /\ rhist = <<>>
    /\ dl = [kind |-> "None", n |-> 0]
    /\ clock = "early"
    /\ counts = [nodes |-> 0, leaves |-> 0, qnodes |-> 0]
    /\ stack = <<>>
    /\ ret = NoOp
    /\ drv = [pc |-> "idle"]
    /\ cb = NoOp
    /\ accepted = NoOp
    /\ result = NoOp
    /\ nsearch = 0

InitTT ==
    /\ tt = [i \in 0..(TTSize - 1) |-> ZeroWord]
    /\ full = 0
    /\ lastOp = NoOp
    /\ hold = NoOp
    /\ ls = SortIdle
    /\ thr = ThreadsIdle
    /\ SearchIdle

\* TT::write
Write(key, data) ==
    LET index    == Index(key)
        entry    == Encode(key, data)
        oldentry == tt[index]
    IN  /\ full < MaxFull
        /\ IF KeepsOld(oldentry, entry, key, data)
           THEN UNCHANGED <<tt, full>>
           ELSE /\ tt' = [tt EXCEPT ![index] = entry]
                /\ full' = IF oldentry = ZeroWord THEN full + 1 ELSE full
        /\ lastOp' = [op |-> "write", key |-> key, data |-> data]
        /\ hold' = IF /\ hold.op = "write"
                      /\ hold.key = key
                      /\ data.depth < hold.data.depth
                   THEN hold
                   ELSE [op |-> "write", key |-> key, data |-> data]
        /\ UNCHANGED searchVars
        /\ UNCHANGED <<ls, thr>>

\* TT::get
Probe(moves, key) ==
    /\ lastOp' = [op |-> "get", key |-> key, moves |-> moves, res |-> Get(tt, moves, key)]
    /\ UNCHANGED <<tt, full, hold>>
    /\ UNCHANGED searchVars
    /\ UNCHANGED <<ls, thr>>

NextTT ==
    \/ \E key \in TTKeys, data \in TTEntries : Write(key, data)
    \/ \E key \in TTKeys, moves \in LegalSets : Probe(moves, key)

SpecTT == InitTT /\ [][NextTT]_vars

(***************************************************************************)
(* The table written by two threads: the load of the old word, the store   *)
(* and the fetch_add on the counter of TT::write are separate atomic       *)
(* steps.  The entries written here never pack to the all-zero word.       *)
(***************************************************************************)
ParEntries ==
    {[from |-> 63, to |-> 1, value |-> -1, depth |-> dp, score_type |-> UpperBound] :
        dp \in 0..MaxTTDepth}

\* tt.rs:74-81: index, entry, and the load of oldentry
WriteLoad(t, key, data) ==
    /\ thr[t].pc = "idle"
    /\ full < MaxFull
    /\ thr' = [thr EXCEPT ![t] = [pc |-> "loaded", key |-> key, data |-> data,
                                  oldentry |-> tt[Index(key)]]]
    /\ UNCHANGED <<tt, full, lastOp, hold, ls>>
    /\ UNCHANGED searchVars

\* tt.rs:82-85: the replacement test on the locals, then the store
WriteStore(t) ==
    /\ thr[t].pc = "loaded"
    /\ LET key      == thr[t].key
           data     == thr[t].data
           entry    == Encode(key, data)
           oldentry == thr[t].oldentry
       IN  IF KeepsOld(oldentry, entry, key, data)
           THEN /\ thr' = [thr EXCEPT ![t] = [pc |-> "idle"]]
                /\ UNCHANGED tt
           ELSE /\ tt' = [tt EXCEPT ![Index(key)] = entry]
                /\ thr' = [thr EXCEPT ![t] = IF oldentry = ZeroWord
                                             THEN [@ EXCEPT !.pc = "stored"]
                                             ELSE [pc |-> "idle"]]
    /\ UNCHANGED <<full, lastOp, hold, ls>>
    /\ UNCHANGED searchVars

\* tt.rs:86-88: the fetch_add of a thread that loaded an empty cell
WriteCount(t) ==
    /\ thr[t].pc = "stored"
    /\ full' = full + 1
    /\ thr' = [thr EXCEPT ![t] = [pc |-> "idle"]]
    /\ UNCHANGED <<tt, lastOp, hold, ls>>
    /\ UNCHANGED searchVars

InitPar ==
    /\ tt = [i \in 0..(TTSize - 1) |-> ZeroWord]
    /\ full = 0
    /\ lastOp = NoOp
    /\ hold = NoOp
    /\ ls = SortIdle
    /\ thr = ThreadsIdle
    /\ SearchIdle

NextPar ==
    \/ \E t \in Threads, key \in TTKeys, data \in ParEntries : WriteLoad(t, key, data)
    \/ \E t \in Threads : WriteStore(t)
    \/ \E t \in Threads : WriteCount(t)

SpecPar == InitPar /\ [][NextPar]_vars

(***************************************************************************)
(* The chess rules library, as a small game graph: what legal_moves,       *)
(* is_check, halfmoves, zobrist_hash, play_unchecked and eval answer for   *)
(* each position.  Scores are from the side to move.                       *)
(*   N, P, Q, E, F, S : ordinary play with a capture exchange, a cycle     *)
(*                      N <-> P, and a stalemate S                         *)
(*   R, D1, D2, X, CM : R mates in two by either move, both lines meet     *)
(*                      in X (mate in one), CM is checkmate                *)
(*   H                : a position whose halfmove clock is 100             *)
(*   Z, ZB            : positions whose static eval is next to the mate    *)
(*                      scores                                             *)
(*   A, B, C, D       : a line of single moves; A and B share a cell of    *)
(*                      the search's table                                 *)
(***************************************************************************)
Quiet(from, to, devel) ==
    [from |-> from, to |-> to, cap |-> FALSE, victim |-> 0, aggr |-> 0,
     devel |-> devel, promo |-> 0, zero |-> FALSE]

Capture(from, to, victim, aggr) ==
    [from |-> from, to |-> to, cap |-> TRUE, victim |-> victim, aggr |-> aggr,
     devel |-> 0, promo |-> 0, zero |-> TRUE]

Pos(ev, chk, hm, hi, lo, ms) ==
    [eval |-> ev, check |-> chk, halfmoves |-> hm, zob |-> [hi |-> hi, lo |-> lo], moves |-> ms]

Game ==
    [p \in {"N", "P", "Q", "E", "F", "S", "R", "D1", "D2", "X", "CM", "H", "Z", "ZB",
             "A", "B", "C", "D"} |->
        CASE p = "N"  -> Pos(20, FALSE, 0, 1, 0,
                             <<[mv |-> Quiet(12, 28, 40), dst |-> "P"],
                               [mv |-> Capture(2, 20, 100, 330), dst |-> "E"]>>)
          [] p = "P"  -> Pos(-15, FALSE, 0, 2, 1,
                             <<[mv |-> Quiet(52, 36, 40), dst |-> "N"],
                               [mv |-> Quiet(57, 42, 50), dst |-> "Q"]>>)
          [] p = "Q"  -> Pos(35, FALSE, 0, 3, 2,
                             <<[mv |-> Quiet(6, 21, 50), dst |-> "P"]>>)
          [] p = "E"  -> Pos(-130, FALSE, 0, 4, 10,
                             <<[mv |-> Capture(27, 20, 330, 100), dst |-> "F"]>>)
          [] p = "F"  -> Pos(-200, FALSE, 0, 5, 4,
                             <<[mv |-> Quiet(4, 5, 10), dst |-> "S"]>>)
          [] p = "S"  -> Pos(210, FALSE, 0, 6, 11, <<>>)
          [] p = "R"  -> Pos(50, FALSE, 0, 7, 5,
                             <<[mv |-> Quiet(3, 11, 10), dst |-> "D1"],
                               [mv |-> Quiet(5, 14, 5), dst |-> "D2"]>>)
          [] p = "D1" -> Pos(-50, TRUE, 0, 8, 6,
                             <<[mv |-> Quiet(60, 52, 0), dst |-> "X"]>>)
          [] p = "D2" -> Pos(-50, FALSE, 0, 9, 7,
                             <<[mv |-> Quiet(60, 59, 0), dst |-> "X"]>>)
          [] p = "X"  -> Pos(60, FALSE, 0, 10, 8,
                             <<[mv |-> Quiet(11, 59, 20), dst |-> "CM"]>>)
          [] p = "CM" -> Pos(-70, TRUE, 0, 11, 12, <<>>)
          [] p = "H"  -> Pos(25, FALSE, 100, 12, 9,
                             <<[mv |-> Quiet(12, 28, 40), dst |-> "P"]>>)
          [] p = "Z"  -> Pos(32699, FALSE, 0, 13, 13,
                             <<[mv |-> Capture(9, 18, 100, 100), dst |-> "ZB"]>>)
          [] p = "ZB" -> Pos(-32699, FALSE, 0, 14, 14,
                             <<[mv |-> Quiet(62, 45, 30), dst |-> "Z"]>>)
          [] p = "A"  -> Pos(10, FALSE, 0, 15, 5,
                             <<[mv |-> Quiet(1, 18, 30), dst |-> "B"]>>)
          [] p = "B"  -> Pos(-10, FALSE, 0, 16, 13,
                             <<[mv |-> Quiet(57, 42, 30), dst |-> "C"]>>)
          [] p = "C"  -> Pos(10, FALSE, 0, 17, 6,
                             <<[mv |-> Quiet(6, 21, 30), dst |-> "D"]>>)
          [] p = "D"  -> Pos(-10, FALSE, 0, 18, 7,
                             <<[mv |-> Quiet(62, 45, 30), dst |-> "A"]>>)]

legal_moves(p) == Game[p].moves

is_check(p) == Game[p].check

halfmoves(p) == Game[p].halfmoves

zobrist_hash(p) == Game[p].zob

eval(p) == Game[p].eval

\* capture_moves: the legal moves that capture, in generation order
capture_moves(p) == SelectSeq(legal_moves(p), LAMBDA e : e.mv.cap)

(***************************************************************************)
(* Piece values (eval.rs) and the moves of three positions, White to move, *)
(* with the fields move_key reads.  Squares are a1 = 0 .. h8 = 63.         *)
(***************************************************************************)
PST ==
    <<
     \* pawn
     <<0, 0, 0, 0, 0, 0, 0, 0,
       50, 50, 50, 50, 50, 50, 50, 50,
       10, 10, 20, 30, 30, 20, 10, 10,
       5, 5, 10, 25, 25, 10, 5, 5,
       0, 0, 0, 20, 20, 0, 0, 0,
       5, -5, -10, 0, 0, -10, -5, 5,
       5, 10, 10, -20, -20, 10, 10, 5,
       0, 0, 0, 0, 0, 0, 0, 0>>,
     \* knight
     <<-50, -40, -30, -30, -30, -30, -40, -50,
       -40, -20, 0, 0, 0, 0, -20, -40,
       -30, 0, 10, 15, 15, 10, 0, -30,
       -30, 5, 15, 20, 20, 15, 5, -30,
       -30, 0, 15, 20, 20, 15, 0, -30,
       -30, 5, 10, 15, 15, 10, 5, -30,
       -40, -20, 0, 5, 5, 0, -20, -40,
       -50, -40, -30, -30, -30, -30, -40, -50>>,
     \* bishop
     <<-20, -10, -10, -10, -10, -10, -10, -20,
       -10, 0, 0, 0, 0, 0, 0, -10,
       -10, 0, 5, 10, 10, 5, 0, -10,
       -10, 5, 5, 10, 10, 5, 5, -10,
       -10, 0, 10, 10, 10, 10, 0, -10,
       -10, 10, 10, 10, 10, 10, 10, -10,
       -10, 5, 0, 0, 0, 0, 5, -10,
       -20, -10, -10, -10, -10, -10, -10, -20>>,
     \* rook
     <<0, 0, 0, 0, 0, 0, 0, 0,
       5, 10, 10, 10, 10, 10, 10, 5,
       -5, 0, 0, 0, 0, 0, 0, -5,
       -5, 0, 0, 0, 0, 0, 0, -5,
       -5, 0, 0, 0, 0, 0, 0, -5,
       -5, 0, 0, 0, 0, 0, 0, -5,
       -5, 0, 0, 0, 0, 0, 0, -5,
       0, 0, 0, 5, 5, 0, 0, 0>>,
     \* queen
     <<-20, -10, -10, -5, -5, -10, -10, -20,
       -10, 0, 0, 0, 0, 0, 0, -10,
       -10, 0, 5, 5, 5, 5, 0, -10,
       -5, 0, 5, 5, 5, 5, 0, -5,
       0, 0, 5, 5, 5, 5, 0, -5,
       -10, 5, 5, 5, 5, 5, 0, -10,
       -10, 0, 5, 0, 0, 0, 0, -10,
       -20, -10, -10, -5, -5, -10, -10, -20>>,
     \* king middle game
     <<-30, -40, -40, -50, -50, -40, -40, -30,
       -30, -40, -40, -50, -50, -40, -40, -30,
       -30, -40, -40, -50, -50, -40, -40, -30,
       -30, -40, -40, -50, -50, -40, -40, -30,
       -20, -30, -30, -40, -40, -30, -30, -20,
       -10, -20, -20, -20, -20, -20, -20, -10,
       20, 20, 0, 0, 0, 0, 20, 20,
       20, 30, 10, 0, 0, 10, 30, 20>>
    >>

\* the role as the index of its table: usize::from(role) - 1, from 0
RoleIndex(role) ==
    CASE role = "Pawn"   -> 0
      [] role = "Knight" -> 1
      [] role = "Bishop" -> 2
      [] role = "Rook"   -> 3
      [] role = "Queen"  -> 4
      [] OTHER           -> 5

\* Square::flip_vertical: the square xor 56
FlipVertical(sq) == (7 - (sq \div 8)) * 8 + (sq % 8)

eval_piece(sq, color, role) ==
    LET base_piece_value == CASE role = "Pawn"   -> 100
                              [] role = "Knight" -> 320
                              [] role = "Bishop" -> 330
                              [] role = "Rook"   -> 500
                              [] role = "Queen"  -> 900
                              [] OTHER           -> 0
        sq_idx == IF color = "White" THEN FlipVertical(sq) ELSE sq
    IN  base_piece_value + PST[RoleIndex(role) + 1][sq_idx + 1]

\* the value move_key gives TTMove for m.promotion()
PromotionRank(promotion) ==
    CASE promotion = "Queen"  -> -4
      [] promotion = "Rook"   -> -3
      [] promotion = "Bishop" -> -2
      [] promotion = "Knight" -> -1
      [] OTHER                -> 0

Other(color) == IF color = "White" THEN "Black" ELSE "White"

\* a move of the piece of the given role, with what move_key computes of it:
\* the captured piece's and the aggressor's values, and the development
MoveOf(turn, role, from, to, captured, promotion) ==
    LET role_to == IF promotion = "None" THEN role ELSE promotion
    IN  [from   |-> from,
         to     |-> to,
         cap    |-> captured # "None",
         victim |-> IF captured = "None" THEN 0 ELSE eval_piece(to, Other(turn), captured),
         aggr   |-> IF captured = "None" THEN 0 ELSE eval_piece(from, turn, role),
         devel  |-> IF captured # "None" THEN 0
                    ELSE eval_piece(to, turn, role_to) - eval_piece(from, turn, role),
         promo  |-> PromotionRank(promotion),
         zero   |-> captured # "None" \/ role = "Pawn"]

\* legal moves, in generation order, of
\*   "start" : the initial position (a2a3, h2h3, Nb1a3, Ng1h3, e2e4)
\*   "pawns" : white pawns a4 and c4, a black pawn b5 (axb5, cxb5, a5, c5)
\*   "promo" : a white pawn a7 before an empty a8 (a8=Q, a8=R, a8=B, a8=N)
KeyPositions ==
    [p \in {"start", "pawns", "promo"} |->
        CASE p = "start" -> <<MoveOf("White", "Pawn", 8, 16, "None", "None"),
                              MoveOf("White", "Pawn", 15, 23, "None", "None"),
                              MoveOf("White", "Knight", 1, 16, "None", "None"),
                              MoveOf("White", "Knight", 6, 23, "None", "None"),
                              MoveOf("White", "Pawn", 12, 28, "None", "None")>>
          [] p = "pawns" -> <<MoveOf("White", "Pawn", 24, 33, "Pawn", "None"),
                              MoveOf("White", "Pawn", 26, 33, "Pawn", "None"),
                              MoveOf("White", "Pawn", 24, 32, "None", "None"),
                              MoveOf("White", "Pawn", 26, 34, "None", "None")>>
          [] OTHER       -> <<MoveOf("White", "Pawn", 48, 56, "None", "Queen"),
                              MoveOf("White", "Pawn", 48, 56, "None", "Rook"),
                              MoveOf("White", "Pawn", 48, 56, "None", "Bishop"),
                              MoveOf("White", "Pawn", 48, 56, "None", "Knight")>>]

(***************************************************************************)
(* Scores.                                                                 *)
(***************************************************************************)
I16Min == -32768
Sentinel == -32768
Mate == 32700

Wrap16(x) == ToI16(x % 65536)

\* -x on an i16 without overflow checks
Neg16(x) == Wrap16(0 - x)

\* a / b as Rust divides: towards zero
TruncDiv(a, b) == IF a >= 0 THEN a \div b ELSE 0 - ((0 - a) \div b)

convert_score(score) ==
    IF score > 32000
    THEN [kind |-> "MateIn", n |-> TruncDiv(32701 - score, 2)]
    ELSE IF score < -32000
         THEN [kind |-> "MateIn", n |-> TruncDiv(Neg16(Wrap16(32700 + score)), 2)]
         ELSE [kind |-> "Centipawns", n |-> score]

\* a shrink with the signs exchanged
MateGrow(best_value) ==
    LET b1 == IF best_value < -32500 THEN best_value - 1 ELSE best_value
    IN  IF b1 > 32500 THEN b1 + 1 ELSE b1

\* the shrink of a mate score at the end of alphabeta
MateShrink(best_value) ==
    LET b1 == IF best_value < -32500 THEN best_value + 1 ELSE best_value
    IN  IF b1 > 32500 THEN b1 - 1 ELSE b1

(***************************************************************************)
(* The deadline.                                                           *)
(***************************************************************************)
count(c) == c.nodes + c.qnodes - c.leaves

check_soft(deadline, now, nodes_searched, depth_searched) ==
    CASE deadline.kind = "Depth" -> depth_searched >= deadline.n
      [] deadline.kind = "Nodes" -> nodes_searched >= deadline.n
      [] deadline.kind = "Time"  -> now \in {"soft", "hard"}
      [] OTHER                   -> FALSE

\* a node limit that trips one node early
check_hard_early(deadline, now, nodes_searched, depth_searched) ==
    CASE deadline.kind = "Depth" -> depth_searched >= deadline.n
      [] deadline.kind = "Nodes" -> nodes_searched + 1 >= deadline.n
      [] deadline.kind = "Time"  -> now = "hard"
      [] OTHER                   -> FALSE

\* a node limit tested only at multiples of the limit
check_hard_periodic(deadline, now, nodes_searched, depth_searched) ==
    CASE deadline.kind = "Depth" -> depth_searched >= deadline.n
      [] deadline.kind = "Nodes" -> nodes_searched % deadline.n = 0
      [] deadline.kind = "Time"  -> now = "hard"
      [] OTHER                   -> FALSE

check_hard(deadline, now, nodes_searched, depth_searched) ==
    CASE deadline.kind = "Depth" -> depth_searched >= deadline.n
      [] deadline.kind = "Nodes" -> nodes_searched >= deadline.n
      [] deadline.kind = "Time"  -> now = "hard"
      [] OTHER                   -> FALSE

\* SearchState.stop is created false and never stored to
stop == FALSE

(***************************************************************************)
(* The table as search.rs uses it: get_tt and write_tt on a vector of      *)
(* SearchTTSize cells.                                                     *)
(***************************************************************************)
SearchTTSize == 8

SPow40 == PowMod(2, 40, SearchTTSize)

SIndex(key) == ((key.hi % SearchTTSize) * SPow40 + key.lo) % SearchTTSize

get_tt(t, moves, key) ==
    LET entry == t[SIndex(key)]
        e     == Decode(entry)
    IN  IF entry.tag = key.hi
        THEN IF e.score_type = 3
             THEN [panic |-> TRUE]
             ELSE IF \E i \in 1..Len(moves) : move_match_tt(moves[i].mv, e)
                  THEN e
                  ELSE NoEntry
        ELSE NoEntry

write_tt(t, key, data) == [t EXCEPT ![SIndex(key)] = Encode(key, data)]

(***************************************************************************)
(* Move ordering and the lazy selection sort.                              *)
(***************************************************************************)
\* a key that gives every move matching the table entry TTMove(0)
move_key_flat(tte, m) ==
    IF tte # NoEntry /\ move_match_tt(m, tte)
    THEN <<0, 0, 0>>
    ELSE IF m.cap
         THEN <<1, 0 - m.victim, 0 - m.aggr>>
         ELSE <<2, 0 - m.devel, 0>>

\* MoveOrderKey as <<variant, field, field>>: TTMove = 0, Capture = 1, Quiet = 2
move_key(tte, m) ==
    IF tte # NoEntry /\ move_match_tt(m, tte)
    THEN <<0, m.promo, 0>>
    ELSE IF m.cap
         THEN <<1, 0 - m.victim, 0 - m.aggr>>
         ELSE <<2, 0 - m.devel, 0>>

\* the derived Ord: by variant, then by the fields in order
KeyLess(a, b) ==
    \/ a[1] < b[1]
    \/ a[1] = b[1] /\ a[2] < b[2]
    \/ a[1] = b[1] /\ a[2] = b[2] /\ a[3] < b[3]

RECURSIVE Scan(_, _, _, _)
Scan(keys, seen, i, best) ==
    IF i > Len(keys) THEN best
    ELSE IF i \in seen THEN Scan(keys, seen, i + 1, best)
    ELSE IF best = 0 THEN Scan(keys, seen, i + 1, i)
    ELSE IF KeyLess(keys[i], keys[best]) THEN Scan(keys, seen, i + 1, i)
    ELSE Scan(keys, seen, i + 1, best)

\* a scan that does not skip the items already yielded
LazyNextAgain(keys, seen) == Scan(keys, {}, 1, 0)

\* LazySort::next: the index of the first unseen item of least key, 0 for None
LazyNext(keys, seen) == Scan(keys, seen, 1, 0)

(***************************************************************************)
(* LazySort on its own: a slice of moves of one position, the keys of      *)
(* move_key under a table hint, and calls of next().  Items are named by   *)
(* their index in the slice, as the references next() and seen() return.   *)
(***************************************************************************)
\* LazySort::new
LazySortNew(data, tte) ==
    [data |-> data,
     keys |-> [i \in 1..Len(data) |-> move_key(tte, data[i])],
     seen |-> {},
     out  |-> <<>>,
     none |-> FALSE]

\* LazySort::seen: the items whose flag is set, in slice order
Seen(l) == SelectSeq([i \in 1..Len(l.data) |-> i], LAMBDA i : i \in l.seen)

Slices(p) == UNION {[1..k -> {KeyPositions[p][i] : i \in 1..Len(KeyPositions[p])}] : k \in 0..MaxLen}

\* no table entry, or one with the squares of a move of the position
Hints(p) ==
    {NoEntry} \cup
    {[from |-> KeyPositions[p][i].from, to |-> KeyPositions[p][i].to, value |-> 0,
      depth |-> 1, score_type |-> Exact] : i \in 1..Len(KeyPositions[p])}

InitSort ==
    /\ tt = [i \in 0..(TTSize - 1) |-> ZeroWord]
    /\ full = 0
    /\ lastOp = NoOp
    /\ hold = NoOp
    /\ SearchIdle
    /\ thr = ThreadsIdle
    /\ \E p \in DOMAIN KeyPositions :
         \E data \in Slices(p), tte \in Hints(p) : ls = LazySortNew(data, tte)

\* one call of next(): the item is flagged and yielded, or None is returned
SortNext ==
    /\ Len(ls.out) <= Len(ls.data)
    /\ LET i == LazyNext(ls.keys, ls.seen)
       IN  IF i = 0
           THEN ls' = [ls EXCEPT !.none = TRUE]
           ELSE ls' = [ls EXCEPT !.seen = @ \cup {i}, !.out = Append(@, i)]
    /\ UNCHANGED ttVars
    /\ UNCHANGED searchVars
    /\ UNCHANGED thr

NextSort == SortNext

SpecSort == InitSort /\ [][NextSort]_vars

(***************************************************************************)
(* Call frames.  A step of a node runs its code up to the next recursive   *)
(* call or to its return; the outcome of a step is a return (with the      *)
(* table write made on the way, if any) or a call.                         *)
(***************************************************************************)
AbFrame(pos, hist, depth, alpha, beta) ==
    [fn |-> "ab", pc |-> "entry", pos |-> pos, hist |-> hist, depth |-> depth,
     alpha |-> alpha, beta |-> beta, tte |-> NoEntry, seen |-> {}, cur |-> 0,
     stage |-> "full", best_value |-> I16Min, best_move |-> 1, node_type |-> "All",
     pv |-> <<>>, iid_timeout |-> FALSE]

QsFrame(pos, alpha, beta) ==
    [fn |-> "qs", pc |-> "entry", pos |-> pos, alpha |-> alpha, beta |-> beta,
     all |-> FALSE, seen |-> {}, cur |-> 0, best |-> 0]

NoWrite == [none |-> TRUE]

Ret(score, line) ==
    [kind |-> "ret", val |-> [score |-> score, pv |-> line, wrote |-> FALSE], wr |-> NoWrite]

Call(f, child) == [kind |-> "call", frame |-> f, child |-> child]

\* return (qsearch(..), Vec::new()): the frame becomes the callee's
TailCall(f) == [kind |-> "tail", frame |-> f]

\* the test for a child that ran out of time (search.rs:297)
IsTimeout(score) == score = Sentinel

\* the table cutoff (search.rs:248-262)
TTCut(tte, alpha, beta) ==
    \/ tte.score_type = Exact
    \/ tte.score_type = LowerBound /\ tte.value >= beta
    \/ tte.score_type = UpperBound /\ tte.value < alpha

Reps(hist, pos) == Cardinality({i \in 1..Len(hist) : hist[i] = pos})

\* the keys LazySort::new computes for a node's moves
AbKeys(f) == [i \in 1..Len(legal_moves(f.pos)) |-> move_key(f.tte, legal_moves(f.pos)[i].mv)]

\* the head of the move loop (search.rs:282-296): the next move and its search
AbLoop(f) ==
    LET i     == LazyNext(AbKeys(f), f.seen)
        e     == legal_moves(f.pos)[i]
        hist  == IF e.mv.zero THEN <<>> ELSE f.hist
        child == IF f.node_type = "All"
                 THEN AbFrame(e.dst, hist, f.depth - 1, Neg16(f.beta), Neg16(f.alpha))
                 ELSE AbFrame(e.dst, hist, f.depth - 1, Wrap16(Neg16(f.alpha) - 1),
                              Neg16(f.alpha))
    IN  Call([f EXCEPT !.pc = "wait", !.cur = i, !.seen = @ \cup {i},
                       !.stage = IF f.node_type = "All" THEN "full" ELSE "null"],
             child)

\* the entry written at the end of alphabeta (search.rs:319-333)
NodeEntry(f) ==
    [from       |-> legal_moves(f.pos)[f.best_move].mv.from,
     to         |-> legal_moves(f.pos)[f.best_move].mv.to,
     depth      |-> f.depth % 256,
     value      |-> f.best_value,
     score_type |-> CASE f.node_type = "PV"  -> Exact
                      [] f.node_type = "Cut" -> LowerBound
                      [] OTHER               -> UpperBound]

\* the end of alphabeta (search.rs:319-340): the table write, then the shrink
Finish(f) ==
    [kind |-> "ret",
     val  |-> [score |-> MateShrink(f.best_value), pv |-> f.pv, wrote |-> TRUE],
     wr   |-> [key |-> zobrist_hash(f.pos), data |-> NodeEntry(f)]]

\* a timeout exit that stores the node before returning
TimeoutRetStoring(f) ==
    [kind |-> "ret",
     val  |-> [score |-> Sentinel, pv |-> <<>>, wrote |-> TRUE],
     wr   |-> [key |-> zobrist_hash(f.pos), data |-> NodeEntry(f)]]

\* alphabeta, the timeout exits (search.rs:210 and :299): no table write
TimeoutRet(f) == Ret(Sentinel, <<>>)

\* search.rs:242-281: table cutoff, draw detection, then into the move loop
AbBody(f, tte) ==
    IF tte # NoEntry /\ tte.depth >= f.depth /\ TTCut(tte, f.alpha, f.beta)
    THEN Ret(tte.value, <<>>)
    ELSE IF Reps(f.hist, f.pos) >= 2
         THEN Ret(0, <<>>)
         ELSE IF halfmoves(f.pos) >= 100
              THEN Ret(0, <<>>)
              ELSE AbLoop([f EXCEPT !.tte = tte, !.hist = Append(f.hist, f.pos)])

\* search.rs:197-240, with nodes already counted in c
AbEntryOut(f, t, c, done_depth) ==
    IF f.depth <= 0
    THEN TailCall(QsFrame(f.pos, f.alpha, f.beta))
    ELSE IF check_hard(dl, clock, count(c), done_depth) \/ stop
         THEN TimeoutRet(f)
         ELSE IF legal_moves(f.pos) = <<>>
              THEN (IF is_check(f.pos) THEN Ret(0 - Mate, <<>>) ELSE Ret(0, <<>>))
              ELSE LET tte == get_tt(t, legal_moves(f.pos), zobrist_hash(f.pos))
                   IN  IF tte = NoEntry /\ f.depth >= 3
                       THEN Call([f EXCEPT !.pc = "iid"],
                                 AbFrame(f.pos, f.hist,
                                         IF f.depth - 2 < 2 THEN f.depth - 2 ELSE 2,
                                         f.alpha, f.beta))
                       ELSE AbBody(f, tte)

\* pv.push(mv) without pv = sub_pv
KeepPv(pv, sub_pv, mv) == Append(pv, mv)

\* search.rs:307-308: pv = sub_pv; pv.push(mv)
ExtendPv(pv, sub_pv, mv) == Append(sub_pv, mv)

\* search.rs:297-317 for the move just searched, r its final (score, sub_pv)
AbAfterChild(f, r) ==
    IF IsTimeout(r.score)
    THEN TimeoutRet(f)
    ELSE LET score    == Neg16(r.score)
             better   == score > f.best_value
             raises   == better /\ score > f.alpha
             cuts     == better /\ score >= f.beta
             mv       == legal_moves(f.pos)[f.cur].mv
             f2       == [f EXCEPT
                            !.best_value = IF better THEN score ELSE @,
                            !.best_move  = IF better THEN f.cur ELSE @,
                            !.alpha      = IF raises THEN score ELSE @,
                            !.pv         = IF raises THEN ExtendPv(f.pv, r.pv, mv) ELSE @,
                            !.node_type  = IF cuts THEN "Cut"
                                           ELSE IF raises THEN "PV" ELSE @]
         IN  IF cuts \/ Cardinality(f2.seen) = Len(legal_moves(f.pos))
             THEN Finish(f2)
             ELSE AbLoop(f2)

\* search.rs:293: after the null-window search, whether to search again;
\* the i16 arithmetic wraps in a build without overflow checks
NeedsResearch(f, r) ==
    f.stage = "null" /\ Neg16(r.score) > f.alpha /\ Wrap16(f.beta - f.alpha) > 1

\* search.rs:293 overflows: -score on -32768, or beta - alpha out of i16
Overflows(f, r) ==
    \/ r.score = I16Min
    \/ Neg16(r.score) > f.alpha /\ f.beta - f.alpha > 32767

AbChildOut(f, r) ==
    IF NeedsResearch(f, r)
    THEN LET e    == legal_moves(f.pos)[f.cur]
             hist == IF e.mv.zero THEN <<>> ELSE f.hist
         IN  Call([f EXCEPT !.stage = "re"],
                  AbFrame(e.dst, hist, f.depth - 1, Neg16(f.beta), Neg16(f.alpha)))
    ELSE AbAfterChild(f, r)

\* qsearch
QsMoves(f) == IF f.all THEN legal_moves(f.pos) ELSE capture_moves(f.pos)

QsKeys(f) == [i \in 1..Len(QsMoves(f)) |-> move_key(NoEntry, QsMoves(f)[i].mv)]

QsLoop(f) ==
    LET i == LazyNext(QsKeys(f), f.seen)
    IN  Call([f EXCEPT !.pc = "wait", !.cur = i, !.seen = @ \cup {i}],
             QsFrame(QsMoves(f)[i].dst, Neg16(f.beta), Neg16(f.alpha)))

QsEntryOut(f) ==
    IF ~is_check(f.pos)
    THEN LET best == eval(f.pos)
             f2   == [f EXCEPT !.best = best, !.all = FALSE,
                               !.alpha = IF best > @ THEN best ELSE @]
         IN  IF best >= f.beta THEN Ret(best, <<>>)
             ELSE IF QsMoves(f2) = <<>> THEN Ret(best, <<>>)
             ELSE QsLoop(f2)
    ELSE LET f2 == [f EXCEPT !.best = 0 - Mate, !.all = TRUE]
         IN  IF QsMoves(f2) = <<>> THEN Ret(f2.best, <<>>) ELSE QsLoop(f2)

QsChildOut(f, r) ==
    LET score == Neg16(r.score)
        f2    == [f EXCEPT !.best = IF score > @ THEN score ELSE @,
                           !.alpha = IF score > @ THEN score ELSE @]
    IN  IF score >= f.beta THEN Ret(score, <<>>)
        ELSE IF Cardinality(f2.seen) = Len(QsMoves(f)) THEN Ret(f2.best, <<>>)
        ELSE QsLoop(f2)

(***************************************************************************)
(* The steps of the search.                                                *)
(***************************************************************************)
Top == stack[Len(stack)]

Below == SubSeq(stack, 1, Len(stack) - 1)

Running == drv.pc \in {"iter", "asp", "re"}

\* what a step's outcome does to the stack, the return register and the table
Step(out) ==
    CASE out.kind = "ret" ->
            /\ stack' = Below
            /\ ret' = out.val
            /\ tt' = IF out.wr = NoWrite THEN tt ELSE write_tt(tt, out.wr.key, out.wr.data)
      [] out.kind = "call" ->
            /\ stack' = Below \o <<out.frame, out.child>>
            /\ UNCHANGED <<ret, tt>>
      [] OTHER ->
            /\ stack' = Below \o <<out.frame>>
            /\ UNCHANGED <<ret, tt>>

nodeFrame == <<full, lastOp, hold, root, rhist, dl, clock, drv, cb, accepted, result, nsearch,
               ls, thr>>

\* alphabeta from its entry (search.rs:197) to its first call or return
AbEntry ==
    /\ stack # <<>>
    /\ Top.fn = "ab" /\ Top.pc = "entry"
    /\ LET c == [counts EXCEPT !.nodes = @ + 1,
                               !.leaves = IF Top.depth <= 0 THEN @ + 1 ELSE @]
       IN  /\ counts' = c
           /\ Step(AbEntryOut(Top, tt, c, drv.done))
    /\ UNCHANGED nodeFrame

\* alphabeta after its internal iterative deepening call (search.rs:236):
\* the call's result is dropped and the table probed again; iid_timeout
\* remembers that the call returned the sentinel
AbIid ==
    /\ stack # <<>>
    /\ Top.fn = "ab" /\ Top.pc = "iid"
    /\ Step(AbBody([Top EXCEPT !.iid_timeout = IsTimeout(ret.score)],
                   get_tt(tt, legal_moves(Top.pos), zobrist_hash(Top.pos))))
    /\ UNCHANGED counts
    /\ UNCHANGED nodeFrame

\* alphabeta after a child returned (search.rs:290-317)
AbChild ==
    /\ stack # <<>>
    /\ Top.fn = "ab" /\ Top.pc = "wait"
    /\ Step(AbChildOut(Top, ret))
    /\ UNCHANGED counts
    /\ UNCHANGED nodeFrame

\* search.rs:293 in a build with overflow checks: the condition panics
AbPanic ==
    /\ stack # <<>>
    /\ Top.fn = "ab" /\ Top.pc = "wait" /\ Top.stage = "null"
    /\ Overflows(Top, ret)
    /\ stack' = <<>>
    /\ drv' = [drv EXCEPT !.pc = "panic"]
    /\ UNCHANGED <<tt, full, lastOp, hold, root, rhist, dl, clock, counts, ret, cb,
                   accepted, result, nsearch, ls, thr>>

QsEntry ==
    /\ stack # <<>>
    /\ Top.fn = "qs" /\ Top.pc = "entry"
    /\ counts' = [counts EXCEPT !.qnodes = @ + 1]
    /\ Step(QsEntryOut(Top))
    /\ UNCHANGED nodeFrame

QsChild ==
    /\ stack # <<>>
    /\ Top.fn = "qs" /\ Top.pc = "wait"
    /\ Step(QsChildOut(Top, ret))
    /\ UNCHANGED counts
    /\ UNCHANGED nodeFrame

(***************************************************************************)
(* The driver, search().                                                   *)
(***************************************************************************)
Callback(depth, score, line) ==
    [last |-> [depth |-> depth, score |-> score, pv |-> line],
     depths |-> Append(cb.depths, depth)]

\* the callback of search.rs:385
AspTimeoutCallback(d, r) == Callback(65534, convert_score(d.score), d.pv)

\* the callback of search.rs:399: pv is the one bound at :396
ReTimeoutCallback(d, r) == Callback(65535, convert_score(d.score), r.pv)

\* search.rs:417
Returned(d) == [score |-> convert_score(d.score), pv |-> d.pv]

\* an out-of-time exit that adopts what the iteration returned
TimedOutAdopting(callback) ==
    /\ cb' = callback
    /\ drv' = [drv EXCEPT !.pc = "done"]
    /\ result' = Returned([drv EXCEPT !.score = ret.score, !.pv = ret.pv])
    /\ UNCHANGED <<stack, accepted>>

\* the out-of-time exits of the loop: callback, break, return
TimedOut(callback) ==
    /\ cb' = callback
    /\ drv' = [drv EXCEPT !.pc = "done"]
    /\ result' = Returned(drv)
    /\ UNCHANGED <<stack, accepted>>

\* search.rs:404-415: adopt the iteration, callback, soft deadline
Complete(new_score, new_pv) ==
    LET d2 == [drv EXCEPT !.score = new_score, !.pv = new_pv, !.done = drv.d]
    IN  /\ cb' = Callback(drv.d, convert_score(new_score), new_pv)
        /\ accepted' = [score |-> new_score, pv |-> new_pv]
        /\ IF new_pv # <<>> /\ check_soft(dl, clock, count(counts), drv.d)
           THEN /\ drv' = [d2 EXCEPT !.pc = "done"]
                /\ result' = Returned(d2)
           ELSE /\ drv' = [d2 EXCEPT !.pc = "iter", !.d = @ + 1]
                /\ UNCHANGED result
        /\ UNCHANGED stack

driverFrame == <<tt, full, lastOp, hold, root, rhist, dl, clock, counts, ret, nsearch, ls, thr>>

\* the head of an iteration (search.rs:373-382)
DStart ==
    /\ drv.pc = "iter" /\ stack = <<>>
    /\ drv.d <= MaxDepth
    /\ LET a == Wrap16(drv.score - 50)
           b == Wrap16(drv.score + 50)
       IN  /\ drv' = [drv EXCEPT !.pc = "asp", !.asp_alpha = a, !.asp_beta = b]
           /\ stack' = <<AbFrame(root, rhist, drv.d, a, b)>>
    /\ UNCHANGED <<cb, accepted, result>>
    /\ UNCHANGED driverFrame

\* after the aspiration search (search.rs:383-396)
DAsp ==
    /\ drv.pc = "asp" /\ stack = <<>>
    /\ IF ret.score = Sentinel
       THEN TimedOut(AspTimeoutCallback(drv, ret))
       ELSE IF ret.score > drv.asp_alpha /\ ret.score < drv.asp_beta
            THEN Complete(ret.score, ret.pv)
            ELSE LET alpha == IF ret.score <= drv.asp_alpha THEN I16Min + 1 ELSE drv.asp_alpha
                     beta  == IF ret.score >= drv.asp_beta THEN 32767 - 1 ELSE drv.asp_beta
                 IN  /\ stack' = <<AbFrame(root, rhist, drv.d, alpha, beta)>>
                     /\ drv' = [drv EXCEPT !.pc = "re"]
                     /\ UNCHANGED <<cb, accepted, result>>
    /\ UNCHANGED driverFrame

\* after the re-search (search.rs:397-403)
DRe ==
    /\ drv.pc = "re" /\ stack = <<>>
    /\ IF ret.score = Sentinel
       THEN TimedOut(ReTimeoutCallback(drv, ret))
       ELSE Complete(ret.score, ret.pv)
    /\ UNCHANGED driverFrame

\* Instant::now() passes the soft deadline; it is read between iterations
TickSoft ==
    /\ dl.kind = "Time" /\ clock = "early"
    /\ drv.pc \in {"asp", "re"} /\ stack = <<>>
    /\ clock' = "soft"
    /\ UNCHANGED <<tt, full, lastOp, hold, root, rhist, dl, counts, stack, ret, drv, cb,
                   accepted, result, nsearch, ls, thr>>

\* Instant::now() passes the hard deadline; it is read at the entry of a node
TickHard ==
    /\ dl.kind = "Time" /\ clock # "hard"
    /\ stack # <<>> /\ Top.fn = "ab" /\ Top.pc = "entry"
    /\ clock' = "hard"
    /\ UNCHANGED <<tt, full, lastOp, hold, root, rhist, dl, counts, stack, ret, drv, cb,
                   accepted, result, nsearch, ls, thr>>

(***************************************************************************)
(* The shell (main.rs:157-199): a search of a position, with the history   *)
(* and the deadline the go message gives; the table outlives the search,   *)
(* and the position may be searched again.                                 *)
(***************************************************************************)
Roots == {"N", "R", "H", "D1", "Z", "A"}

Histories(p) == {<<>>, <<p>>, <<p, p>>}

Deadlines ==
    {[kind |-> "Depth", n |-> n] : n \in 1..MaxDepth}
    \cup {[kind |-> "Nodes", n |-> n] : n \in {1, 8, 13}}
    \cup {[kind |-> "Time", n |-> 0], [kind |-> "None", n |-> 0]}

StartSearch(p, h, deadline) ==
    /\ root' = p
    /\ rhist' = h
    /\ dl' = deadline
    /\ clock' = "early"
    /\ counts' = [nodes |-> 0, leaves |-> 0, qnodes |-> 0]
    /\ stack' = <<>>
    /\ ret' = [score |-> 0, pv |-> <<>>, wrote |-> FALSE]
    /\ drv' = [pc |-> "iter", d |-> 0, score |-> eval(p), pv |-> <<>>,
               asp_alpha |-> 0, asp_beta |-> 0, done |-> 0]
    /\ cb' = [last |-> NoOp, depths |-> <<>>]
    /\ accepted' = [score |-> eval(p), pv |-> <<>>]
    /\ result' = NoOp

Go ==
    /\ drv.pc = "done"
    /\ nsearch < MaxSearches
    /\ \E h \in Histories(root), deadline \in Deadlines : StartSearch(root, h, deadline)
    /\ nsearch' = nsearch + 1
    /\ UNCHANGED <<tt, full, lastOp, hold, ls, thr>>

Init ==
    /\ tt = [i \in 0..(SearchTTSize - 1) |-> ZeroWord]
    /\ full = 0
    /\ lastOp = NoOp
    /\ hold = NoOp
    /\ ls = SortIdle
    /\ thr = ThreadsIdle
    /\ root \in Roots
    /\ rhist \in Histories(root)
    /\ dl \in Deadlines
    /\ clock = "early"
    /\ counts = [nodes |-> 0, leaves |-> 0, qnodes |-> 0]
    /\ stack = <<>>
    /\ ret = [score |-> 0, pv |-> <<>>, wrote |-> FALSE]
    /\ drv = [pc |-> "iter", d |-> 0, score |-> eval(root), pv |-> <<>>,
              asp_alpha |-> 0, asp_beta |-> 0, done |-> 0]
    /\ cb = [last |-> NoOp, depths |-> <<>>]
    /\ accepted = [score |-> eval(root), pv |-> <<>>]
    /\ result = NoOp
    /\ nsearch = 1

Next ==
    \/ AbEntry
    \/ AbIid
    \/ AbChild
    \/ AbPanic
    \/ QsEntry
    \/ QsChild
    \/ DStart
    \/ DAsp
    \/ DRe
    \/ TickSoft
    \/ TickHard
    \/ Go

Spec == Init /\ [][Next]_vars

(***************************************************************************)
(* Claims about the table.                                                 *)
(***************************************************************************)

\* C1: depth-preferred replacement.  When write(k, e_hi) is followed at once
\* by write(k, e_lo) with e_lo.depth < e_hi.depth, the second write changes
\* neither the table nor the occupied counter.
C1_DepthPreferred ==
    [][(/\ lastOp.op = "write"
        /\ lastOp'.op = "write"
        /\ lastOp'.key = lastOp.key
        /\ lastOp'.data.depth < lastOp.data.depth)
       => (tt' = tt /\ full' = full)]_vars

\* C2: table self-consistency.  After write(k, e) followed only by writes of
\* the same key at a lower depth (hold is that write), get(legal, k) returns
\* e in every field when a legal move has e's squares, and None otherwise.
C2_SelfConsistent ==
    (lastOp.op = "get" /\ hold.op = "write" /\ lastOp.key = hold.key)
    => lastOp.res = IF \E m \in lastOp.moves : move_match_tt(m, hold.data)
                    THEN hold.data
                    ELSE NoEntry

\* C3: hashfull() is in 0..1000: the occupied counter never exceeds the
\* number of cells.
C3_HashfullRange == hashfull \in 0..1000 /\ full <= TTSize

(***************************************************************************)
(* Claims about the search.                                                *)
(***************************************************************************)
HardTripped == check_hard(dl, clock, count(counts), drv.done) \/ stop

TimeoutCallback == drv.pc = "done" /\ cb.last.depth \in {65534, 65535}

\* C4: a node of alphabeta that returns the timeout sentinel writes nothing
\* to the table: the step in which it returns leaves every slot as it was.
C4_NoWriteOnTimeout ==
    [][(/\ stack # <<>>
        /\ Top.fn = "ab"
        /\ stack' = Below
        /\ ret'.score = Sentinel)
       => (tt' = tt /\ ~ret'.wrote)]_vars

\* the root of an iteration of depth two or more returned the sentinel after
\* the table had been written
C4_Witness ==
    /\ ret.score = Sentinel
    /\ stack = <<>>
    /\ drv.pc \in {"asp", "re"}
    /\ drv.d >= 2
    /\ \E i \in DOMAIN tt : tt[i] # ZeroWord

\* C5: when an iteration times out, search returns the score and the PV of
\* the last iteration that completed (the static eval and the empty PV when
\* none has).
C5_TimeoutResult ==
    TimeoutCallback
    => result = [score |-> convert_score(accepted.score), pv |-> accepted.pv]

\* a search that timed out after an iteration with a PV had completed
C5_Witness ==
    /\ TimeoutCallback
    /\ drv.done >= 1
    /\ accepted.pv # <<>>
    /\ ret.score = Sentinel

\* C6: the final callback of a search that timed out, of depth 65534 or
\* 65535, carries the last accepted iteration's score and PV.
C6_TimeoutCallback ==
    TimeoutCallback
    => /\ cb.last.score = convert_score(accepted.score)
       /\ cb.last.pv = accepted.pv

\* C7: while the deadline has not tripped, alphabeta and qsearch return
\* scores in -32700..32700, so never the sentinel -32768.
C7_ValidScores ==
    /\ ret.score # Sentinel => ret.score \in (0 - Mate)..Mate
    /\ ret.score = Sentinel => HardTripped

\* a node answered with a mate score at the edge of the range, in time
C7_Witness ==
    /\ ~HardTripped
    /\ stack # <<>>
    /\ ret.score \in {Mate, 0 - Mate}

DrawRoot == Reps(rhist, root) >= 2 \/ halfmoves(root) >= 100

\* C8: for a root that is a draw by repetition or by the fifty-move rule, a
\* search that completed an iteration of depth one or more returns
\* Centipawns(0), whatever the table holds.
C8_DrawRoot ==
    (drv.pc = "done" /\ DrawRoot /\ drv.done >= 1)
    => result.score = [kind |-> "Centipawns", n |-> 0]

\* the forced mates of the game graph, in moves, negative for the mated side
ForcedMate == [p \in {"R", "D1"} |-> IF p = "R" THEN 2 ELSE -1]

\* C9: for a root with a forced mate in k, a mate score returned by search
\* is MateIn(k), or MateIn(-k) for the mated side, also when a node of the
\* line was answered from the table.
C9_MateRoundTrip ==
    (drv.pc = "done" /\ root \in DOMAIN ForcedMate /\ result.score.kind = "MateIn")
    => result.score.n = ForcedMate[root]

RECURSIVE LegalLine(_, _)
LegalLine(p, line) ==
    \/ line = <<>>
    \/ \E i \in 1..Len(legal_moves(p)) :
           /\ legal_moves(p)[i].mv = line[1]
           /\ LegalLine(legal_moves(p)[i].dst, Tail(line))

Reverse(s) == [i \in 1..Len(s) |-> s[Len(s) + 1 - i]]

Yielded == {ls.out[k] : k \in 1..Len(ls.out)}

\* C11: LazySort yields keys in nondecreasing order, every item exactly
\* once and then None, and after i calls of next() seen() returns exactly
\* the first i yielded items.
C11_LazySort ==
    /\ \A a, b \in 1..Len(ls.out) :
           a < b => /\ ~KeyLess(ls.keys[ls.out[b]], ls.keys[ls.out[a]])
                    /\ ls.out[a] # ls.out[b]
    /\ Yielded \subseteq 1..Len(ls.data)
    /\ ls.none => Yielded = 1..Len(ls.data)
    /\ Len(ls.out) = Len(ls.data) => LazyNext(ls.keys, ls.seen) = 0
    /\ Len(Seen(ls)) = Len(ls.out)
    /\ {Seen(ls)[k] : k \in 1..Len(Seen(ls))} = Yielded

\* a slice of MaxLen items, two of them with equal keys, yielded to the end
C11_Witness ==
    /\ ls.none
    /\ Len(ls.out) >= 3
    /\ \E i, j \in 1..Len(ls.data) : i # j /\ ls.keys[i] = ls.keys[j]
    /\ \E i, j \in 1..Len(ls.data) : i < j /\ KeyLess(ls.keys[j], ls.keys[i])

DistinctMoves(i, j) == i # j /\ ls.data[i] # ls.data[j]

\* C12 as stated: any two distinct legal moves of a position receive
\* different keys.
C12_StrictKeys ==
    \A i, j \in 1..Len(ls.data) : DistinctMoves(i, j) => ls.keys[i] # ls.keys[j]

\* C12: any two keys are comparable, two distinct legal moves that match the
\* table hint receive different keys, and moves are iterated by key and,
\* among equal keys, in generation order.
C12_KeyOrder ==
    /\ \A i, j \in 1..Len(ls.data) :
           /\ KeyLess(ls.keys[i], ls.keys[j]) \/ KeyLess(ls.keys[j], ls.keys[i])
              \/ ls.keys[i] = ls.keys[j]
           /\ (DistinctMoves(i, j) /\ ls.keys[i][1] = 0 /\ ls.keys[j][1] = 0)
              => ls.keys[i] # ls.keys[j]
    /\ \A a, b \in 1..Len(ls.out) :
           a < b => \/ KeyLess(ls.keys[ls.out[a]], ls.keys[ls.out[b]])
                    \/ ls.keys[ls.out[a]] = ls.keys[ls.out[b]] /\ ls.out[a] < ls.out[b]

\* two promotions on the same squares, both matching the hint, both yielded
C12_Witness ==
    \E a, b \in 1..Len(ls.out) :
        /\ a < b
        /\ ls.data[ls.out[a]] # ls.data[ls.out[b]]
        /\ ls.keys[ls.out[a]][1] = 0
        /\ ls.keys[ls.out[b]][1] = 0

(***************************************************************************)
(* Claims about the driver, the deadline and the table in the search.      *)
(***************************************************************************)

\* C13: the callbacks of one search report the completed iterations with
\* depths 1, 2, 3, ... in that order: the first depth is 1, and every later
\* callback has a strictly larger depth (65534 or 65535 for the last one of
\* a search that timed out).
C13_CallbackDepths ==
    drv.pc \in {"iter", "asp", "re", "done"}
    => /\ cb.depths # <<>> => cb.depths[1] = 1
       /\ \A k \in 1..Len(cb.depths) :
              /\ cb.depths[k] = k \/ cb.depths[k] \in {65534, 65535}
              /\ k > 1 => cb.depths[k - 1] < cb.depths[k]

\* C14: under Deadline::Nodes(n), whenever search returns, the node count
\* nodes + qnodes - leaves is at least n.
C14_NodesReached ==
    (drv.pc = "done" /\ dl.kind = "Nodes") => count(counts) >= dl.n

\* a search under Nodes(8) returned
C14_Witness == drv.pc = "done" /\ dl.kind = "Nodes" /\ dl.n > 1

SoftTripped == check_soft(dl, clock, count(counts), drv.d)

\* a node polls the hard deadline after an earlier poll returned true: the
\* internal iterative deepening call of an ancestor ran out of time
PollsAgain ==
    /\ stack # <<>>
    /\ Top.fn = "ab" /\ Top.pc = "entry" /\ Top.depth >= 1
    /\ \E k \in 1..(Len(stack) - 1) : stack[k].fn = "ab" /\ stack[k].iid_timeout

\* C15: within one search, once check_hard or check_soft is true it stays
\* true, and nodes + qnodes - leaves never decreases nor underflows.
C15_Monotone ==
    [][(nsearch' = nsearch /\ drv.pc \in {"iter", "asp", "re", "done"})
       => /\ HardTripped => HardTripped'
          /\ SoftTripped => SoftTripped'
          /\ count(counts') >= count(counts)
          /\ counts'.leaves <= counts'.nodes]_vars

\* the node limit is polled again after it tripped, and is still tripped
C15_Witness == PollsAgain /\ HardTripped /\ dl.kind = "Nodes"

\* the entry the node on top of the stack reads from the table
TopEntry == get_tt(tt, legal_moves(Top.pos), zobrist_hash(Top.pos))

\* the node on top of the stack is about to test a table hit of enough
\* depth for a cutoff: it has moves, is not out of time and is no draw
CutTest ==
    /\ stack # <<>>
    /\ Top.fn = "ab" /\ Top.depth >= 1
    /\ \/ Top.pc = "entry" /\ ~check_hard(dl, clock, count(counts) + 1, drv.done)
       \/ Top.pc = "iid"
    /\ legal_moves(Top.pos) # <<>>
    /\ TopEntry # NoEntry
    /\ TopEntry.depth >= Top.depth
    /\ Reps(Top.hist, Top.pos) < 2
    /\ halfmoves(Top.pos) < 100

\* the cutoff rule as the claim states it
StatedCut(tte, alpha, beta) ==
    \/ tte.score_type # UpperBound /\ tte.value >= beta
    \/ tte.score_type # LowerBound /\ tte.value <= alpha

\* C16: a node with a table hit of depth >= its depth returns the entry's
\* score without searching a move if and only if (bound # UpperBound and
\* score >= beta) or (bound # LowerBound and score <= alpha).
C16_CutoffRule ==
    [][(CutTest /\ stack' # stack)
       => ((stack' = Below /\ ret' = [score |-> TopEntry.value, pv |-> <<>>, wrote |-> FALSE])
           <=> StatedCut(TopEntry, Top.alpha, Top.beta))]_vars

\* C17: the score a node stores in the table is the score it returns: the
\* mate shrink is applied before the table write.
C17_StoredIsReturned ==
    [][(/\ stack # <<>>
        /\ Top.fn = "ab"
        /\ stack' = Below
        /\ ret'.wrote)
       => Decode(tt'[SIndex(zobrist_hash(Top.pos))]).value = ret'.score]_vars

\* a cell is the all-zero word, or has bits 1..0 clear and a bound of 0..2
WellFormed(w) ==
    \/ w = ZeroWord
    \/ w.low % 4 = 0 /\ (w.low \div 4) % 4 \in {Exact, LowerBound, UpperBound}

\* C18: after any sequence of writes with squares in 0..63, every cell is
\* the all-zero word or a word with bits 1..0 clear, a bound field in
\* {0, 1, 2} and the top 24 bits of a written key that indexes the cell; get
\* never reaches the decode arm for bound 3.
C18_SlotsWellFormed ==
    /\ [](\A i \in DOMAIN tt : WellFormed(tt[i]))
    /\ [](lastOp.op = "get" => lastOp.res # [panic |-> TRUE])
    /\ [][\A i \in DOMAIN tt :
              tt'[i] # tt[i]
              => /\ lastOp'.op = "write"
                 /\ Index(lastOp'.key) = i
                 /\ tt'[i].tag = lastOp'.key.hi]_vars

\* a cell holds a word with a non-zero tag and bound 2, and it was read back
C18_Witness ==
    /\ lastOp.op = "get"
    /\ lastOp.res # NoEntry
    /\ tt[Index(lastOp.key)].tag # 0
    /\ (tt[Index(lastOp.key)].low \div 4) % 4 = UpperBound

\* C19: a node whose internal iterative deepening call returned the timeout
\* sentinel returns the sentinel itself and writes nothing to the table.
C19_IidTimeout ==
    [][(/\ stack # <<>>
        /\ Top.fn = "ab"
        /\ Top.iid_timeout \/ (Top.pc = "iid" /\ IsTimeout(ret.score))
        /\ stack' = Below
        /\ drv'.pc = drv.pc)
       => (ret'.score = Sentinel /\ tt' = tt)]_vars

\* C20: for a root with a legal move that is no draw, a search that
\* completed an iteration of depth one or more returns a non-empty PV,
\* whatever the table holds.
C20_PvNonEmpty ==
    (/\ drv.pc = "done"
     /\ legal_moves(root) # <<>>
     /\ ~DrawRoot
     /\ drv.done >= 1)
    => result.pv # <<>>

(***************************************************************************)
(* Claims about the table written by two threads.                          *)
(***************************************************************************)
Occupied == {i \in DOMAIN tt : tt[i] # ZeroWord}

\* C21: when two threads run TT::write concurrently, with the load, the
\* store and the fetch_add as separate atomic steps, the occupied counter
\* never exceeds the number of non-zero cells, and so never the table size.
C21_CounterBound == full <= Cardinality(Occupied) /\ full <= TTSize

====
